---- MODULE Spec2Model ----
(***************************************************************************)
(* http_io: the server loop (src/src/server.rs) and the stream utilities   *)
(* it uses (src/src/io.rs).                                                *)
(*                                                                         *)
(* One HttpServer per worker.  A worker runs serve_one: accept a stream,   *)
(* parse one request, dispatch to a handler hook, serialize the response   *)
(* head, copy the response body.  serve_forever repeats serve_one.         *)
(*                                                                         *)
(* The readers of io.rs (BufReader, copy, Take, Cursor, &[u8]) are also   *)
(* taken on their own, each under a sequence of reads (SpecIo), and so is  *)
(* the scripted handler of the tests (SpecScript).                         *)
(*                                                                         *)
(* Texts are abbreviated to the code of their first character              *)
(* ("GET not allowed" is <<71>>); a body written by an application         *)
(* handler is <<1, 2, .., n>>, so that a dropped, repeated or reordered    *)
(* byte is visible.                                                        *)
(***************************************************************************)
EXTENDS Integers, Sequences, FiniteSets, TLC

VARIABLES
    mode,       \* how the servers are driven: "serve_one" (a caller) or "serve_forever"
    handler,    \* the application's handler type: the hooks it overrides, its Error type
    connection_stream, \* the listener: the peers whose connections accept may yield
    pc,         \* pc[w]: the position of worker w in serve_one
    conn,       \* conn[w]: what the peer of the accepted stream sends, and how it stalls
    request,    \* request[w]: the parsed HttpRequest
    calls,      \* calls[w]: the hook invocations of the exchange: <<hook, uri, with body>>
    hook_result, \* hook_result[w]: what the hook returned: Ok(resp), Err(error) or a panic
    forwarded,  \* forwarded[w]: what the hook's reads of the request body returned
    response,   \* response[w]: the HttpResponse being sent, and where it came from
    pending,    \* pending[w]: bytes of response.body not yet read by copy
    wire,       \* wire[w]: the items written to the accepted stream, in order
    writes,     \* writes[w]: the calls of write_all on the stream: "ok" or "failed"
    events,     \* events[w]: the steps of the exchange, in order
    result,     \* result[w]: what serve_one returned
    logged,     \* logged[w]: the error serve_forever printed last
    streams,    \* the streams accepted so far and what was done on each (a history)
    io,         \* a stream utility of io.rs under its reads, with its streams
    th          \* a TestRequestHandler under its hook calls, with its script

vars == <<mode, handler, connection_stream, pc, conn, request, calls, hook_result,
          forwarded, response, pending, wire, writes, events, result, logged, streams,
          io, th>>

----------------------------------------------------------------------------
(* Bounds *)

\* The longest body a handler's response carries.
MaxBody == 3
\* The capacity of copy's buffer (DEFAULT_BUF_SIZE, scaled down).
BufSize == 2
\* The most data chunks (or bytes, under Content-Length) of a request body.
MaxChunks == 2
\* The workers of the one-worker-per-connection service.
NumWorkers == 2

----------------------------------------------------------------------------
(* protocol: methods and statuses *)

Methods == {"Delete", "Get", "Head", "Options", "Post", "Put", "Trace"}

OK == 200
MethodNotAllowed == 405
LengthRequired == 411
InternalServerError == 500

URIs == {"/a", "/b"}

Min(a, b) == IF a < b THEN a ELSE b

Iota(n) == [i \in 1..n |-> i]

Front(s, n) == SubSeq(s, 1, n)
DropFront(s, n) == SubSeq(s, n + 1, Len(s))
IsPrefix(s, t) == Len(s) <= Len(t) /\ s = Front(t, Len(s))

OkR(v) == [ok |-> TRUE, val |-> v]
ErrR(e) == [ok |-> FALSE, val |-> e]

NoRequest == [method |-> "none", uri |-> "none",
              body |-> [framing |-> "none", n |-> 0, bad |-> FALSE]]
NoResponse == [status |-> 0, body |-> <<>>, fails |-> FALSE, origin |-> "none"]
\* No stream utility; no test handler.
NoIo == [kind |-> "none"]
NoTh == [kind |-> "none"]

NoConn == [line |-> "none", method |-> "none", uri |-> "none", framing |-> "none",
           n |-> 0, bad |-> FALSE, stall |-> "none"]

\* HttpResponse::from_string(status, text): the body is a cursor over the text,
\* whose reads never fail.
from_string(status, text) == [status |-> status, body |-> text, fails |-> FALSE]

\* The conversion without its LengthRequired arm.
From_Error_without_arm(e) == from_string(InternalServerError, <<101>>)

\* impl From<error::Error> for HttpResponse
From_Error(e) ==
    IF e = "LengthRequired"
    THEN from_string(LengthRequired, <<108>>)
    ELSE from_string(InternalServerError, <<101>>)


\* <E as Into<HttpResponse>>::into for the handler's associated Error type.  An
\* error value e is [err, resp]: error::Error (named by err) converts through
\* From_Error; a handler whose Error type is the response type itself
\* (TestRequestHandler) hands over the response resp as it is.
Into(errType, e) == IF errType = "Error" THEN From_Error(e.err) ELSE e.resp

----------------------------------------------------------------------------
(* What a peer sends on an accepted stream *)

RequestBodies ==
    {[framing |-> "none", n |-> 0, bad |-> FALSE]}
    \cup {[framing |-> "length", n |-> k, bad |-> FALSE] : k \in 0..MaxChunks}
    \cup {[framing |-> "chunked", n |-> k, bad |-> b] : k \in 0..MaxChunks, b \in BOOLEAN}

\* Requests of the methods without a body hook are drawn with two framings only:
\* no serve_one path looks at their body.
BodiesOf(m) ==
    IF m \in {"Post", "Put"}
    THEN RequestBodies
    ELSE {b \in RequestBodies : b.framing = "none" \/ (b.framing = "length" /\ b.n = 1)}

\* line: "ok" (request line and headers parse), "bad" (malformed start line or
\* header, unknown method).  stall: "request" (the peer never finishes sending its
\* request head), "response" (the peer never drains what is written to it).
Connections ==
    {[line |-> "ok", method |-> m, uri |-> u, framing |-> b.framing, n |-> b.n,
      bad |-> b.bad, stall |-> s] :
        m \in Methods, u \in URIs, b \in RequestBodies, s \in {"none", "response"}}

Peers ==
    {c \in Connections : [framing |-> c.framing, n |-> c.n, bad |-> c.bad] \in BodiesOf(c.method)}
    \cup {[NoConn EXCEPT !.line = "bad", !.stall = s] : s \in {"none", "response"}}
    \cup {[NoConn EXCEPT !.stall = "request"]}

\* BufReader::read: the read goes to the wrapped stream unchanged.
BufReader_read(inner) == inner

\* HttpRequest::deserialize: the request line and the headers are parsed, the body
\* is left on the stream, framed by the headers, for whoever reads it.
deserialize(stream) ==
    IF stream.line = "ok"
    THEN OkR([method |-> stream.method, uri |-> stream.uri,
              body |-> [framing |-> stream.framing, n |-> stream.n, bad |-> stream.bad]])
    ELSE ErrR("ParseError")

\* HttpBody::require_length
require_length(body) ==
    IF body.framing = "none" THEN ErrR("LengthRequired") ELSE OkR("unit")

\* Reading an HttpBody to its end: the bytes of the data chunks before the first
\* malformed chunk-size line, then end-of-stream, or the framing error.
body_read(body) == [data |-> Iota(body.n), end |-> IF body.bad THEN "error" ELSE "eof"]

\* A body stream nobody read from.
Unread == [data |-> <<>>, end |-> "unread"]

----------------------------------------------------------------------------
(* HttpRequestHandler: the provided (default) hooks *)

delete(uri) == OkR(from_string(MethodNotAllowed, <<68>>))
get(uri) == OkR(from_string(MethodNotAllowed, <<71>>))
\* A provided head hook that answers 200 with no body.
head_answers_ok(uri) == OkR(from_string(OK, <<>>))

head(uri) == OkR(from_string(MethodNotAllowed, <<72>>))
options(uri) == OkR(from_string(MethodNotAllowed, <<79>>))
put(uri, stream) == OkR(from_string(MethodNotAllowed, <<80>>))
\* (the text of post's default is "PUT not allowed" in the source)
post(uri, stream) == OkR(from_string(MethodNotAllowed, <<80>>))
trace(uri) == OkR(from_string(MethodNotAllowed, <<84>>))

default_hook(req) ==
    CASE req.method = "Delete" -> delete(req.uri)
      [] req.method = "Get" -> get(req.uri)
      [] req.method = "Head" -> head(req.uri)
      [] req.method = "Options" -> options(req.uri)
      [] req.method = "Post" -> post(req.uri, req.body)
      [] req.method = "Put" -> put(req.uri, req.body)
      [] req.method = "Trace" -> trace(req.uri)

\* The handler types an application may supply: the set of hooks it overrides and
\* its Error type.
HandlerTypes ==
    [overrides : {{}, {"Get", "Put"}, Methods}, errType : {"Error", "Response"}]

\* The responses an overriding hook may return as Ok: any body stream, which may
\* fail when read (a file), after its last byte here.
HookResponses ==
    {[status |-> s, body |-> Iota(n), fails |-> f] :
        s \in {OK, 404}, n \in 0..MaxBody, f \in BOOLEAN}

NoBody == from_string(0, <<>>)

NoResult == [kind |-> "none", resp |-> NoBody, error |-> [err |-> "none", resp |-> NoBody]]

\* The errors an overriding hook may return as Err, per Error type.
HookErrors(errType) ==
    IF errType = "Error"
    THEN {[err |-> e, resp |-> NoBody] : e \in {"LengthRequired", "Other"}}
    ELSE {[err |-> "response", resp |-> r] :
            r \in {from_string(404, <<110>>), from_string(InternalServerError, <<101>>)}}

\* The `?` of a hook on a failed read of its body stream: the framing error,
\* converted to the hook's Error type.
Propagated(errType) ==
    IF errType = "Error"
    THEN [err |-> "ChunkFraming", resp |-> NoBody]
    ELSE [err |-> "response", resp |-> From_Error("ChunkFraming")]

\* What an overriding hook does with a request: whether it reads the body stream
\* it was given, and what it returns.  A read of the body that fails is either
\* propagated with `?` (the file server of the module documentation) or unwrapped
\* (TestRequestHandler::put), which panics; an assertion of the test handler that
\* fails panics too.
HookBehaviours(h, req) ==
    LET mayRead == IF req.method \in {"Post", "Put"} THEN BOOLEAN ELSE {FALSE}
        clean == {r \in mayRead : ~(r /\ req.body.bad)}
        got(r) == IF r THEN body_read(req.body) ELSE Unread
        none == [err |-> "none", resp |-> NoBody]
    IN  {[kind |-> "ok", read |-> r, got |-> got(r), resp |-> v, error |-> none] :
            r \in clean, v \in HookResponses}
        \cup {[kind |-> "err", read |-> r, got |-> got(r), resp |-> NoBody, error |-> e] :
            r \in clean, e \in HookErrors(h.errType)}
        \cup {[kind |-> "panic", read |-> r, got |-> got(r), resp |-> NoBody, error |-> none] :
            r \in mayRead}
        \cup {[kind |-> "err", read |-> r, got |-> got(r), resp |-> NoBody,
               error |-> Propagated(h.errType)] : r \in mayRead \ clean}

----------------------------------------------------------------------------
(* HttpServer *)

Upd(f, w, v) == [f EXCEPT ![w] = v]

\* The fields of the servers of the workers of W, before any serve_one.
ServerFields(W) ==
    /\ pc = [w \in W |-> "idle"]
    /\ conn = [w \in W |-> NoConn]
    /\ request = [w \in W |-> NoRequest]
    /\ calls = [w \in W |-> <<>>]
    /\ forwarded = [w \in W |-> Unread]
    /\ response = [w \in W |-> NoResponse]
    /\ pending = [w \in W |-> <<>>]
    /\ wire = [w \in W |-> <<>>]
    /\ writes = [w \in W |-> <<>>]
    /\ events = [w \in W |-> <<>>]
    /\ result = [w \in W |-> "none"]
    /\ hook_result = [w \in W |-> NoResult]
    /\ logged = [w \in W |-> "none"]

\* No history of the accepted streams is kept.
NoStreams(W) == [on |-> FALSE, invocation |-> [w \in W |-> 0], of |-> [w \in W |-> 0],
                 accepted |-> <<>>]

\* HttpServer::new for each worker of W; no stream utility is on its own.
InitOf(W) ==
    /\ mode \in {"serve_one", "serve_forever"}
    /\ ServerFields(W)
    /\ streams = NoStreams(W)
    /\ io = NoIo
    /\ th = NoTh

Init ==
    /\ InitOf({1})
    /\ handler \in HandlerTypes
    /\ connection_stream = Peers

\* serve_one entered only while no worker of the service is inside serve_one: one
\* server shared by the workers behind a lock.
CanAccept_service_idle(w) == \A v \in DOMAIN pc : pc[v] \in {"idle", "exited"}

\* serve_one may be entered by a worker that is not inside serve_one.
CanAccept(w) == pc[w] = "idle"

\* serve_one, line 211: self.connection_stream.accept()?
Accept(w) ==
    /\ CanAccept(w)
    /\ UNCHANGED <<request, calls, hook_result, forwarded, response, pending, wire,
                   writes, logged>>
    /\ \/ \E c \in connection_stream :
            /\ conn' = Upd(conn, w, c)
            /\ pc' = Upd(pc, w, "accepted")
            /\ events' = Upd(events, w, <<"accept">>)
            /\ result' = Upd(result, w, "none")
       \/ /\ conn' = Upd(conn, w, NoConn)
          /\ pc' = Upd(pc, w, "returned")
          /\ events' = Upd(events, w, <<>>)
          /\ result' = Upd(result, w, "accept_error")
    /\ UNCHANGED <<mode, handler, connection_stream>>

\* serve_one returning at once on the response of a failed parse, unsent.
response_arm_dropping_parse_error(origin) ==
    IF origin = "parse_error" THEN "returned" ELSE "respond"

\* serve_one going straight to the body copy, the head unsent.
response_arm_without_head(origin) == "copy"

\* serve_one, lines 212-215: the response of either arm of the match, Ok(response)
\* or Err(response), is the one serve_one goes on to send.
response_arm(origin) == "respond"

\* serve_one_inner has returned r, from the place `origin`.
Respond(w, r, origin) ==
    /\ response' = Upd(response, w, [status |-> r.status, body |-> r.body,
                                     fails |-> r.fails, origin |-> origin])
    /\ pending' = Upd(pending, w, r.body)
    /\ pc' = Upd(pc, w, response_arm(origin))

\* serve_one_inner, line 228: HttpRequest::deserialize(BufReader::new(stream))?
\* The read blocks while the peer has not sent its request head.
Deserialize(w) ==
    /\ pc[w] = "accepted"
    /\ conn[w].stall # "request"
    /\ LET r == deserialize(BufReader_read(conn[w]))
       IN  IF r.ok
           THEN /\ request' = Upd(request, w, r.val)
                /\ pc' = Upd(pc, w, "parsed")
                /\ events' = Upd(events, w, Append(events[w], "parse"))
                /\ UNCHANGED <<response, pending>>
           ELSE /\ Respond(w, From_Error(r.val), "parse_error")
                /\ events' = Upd(events, w, Append(events[w], "parse_failed"))
                /\ UNCHANGED request
    /\ UNCHANGED <<mode, handler, connection_stream, conn, calls, hook_result, forwarded,
                   wire, writes, result, logged>>

\* serve_one_inner with a length check that accepts Content-Length only.
LengthChecked_rejecting_chunked(req) ==
    IF req.method \in {"Post", "Put"} /\ req.body.framing # "length"
    THEN ErrR("LengthRequired")
    ELSE OkR("unit")

\* serve_one_inner without the require_length of lines 236 and 240.
LengthChecked_skipped(req) == OkR("unit")

\* serve_one_inner, lines 230-244: whether the hook of the request's method is
\* reached; Post and Put go through require_length first.
LengthChecked(req) ==
    IF req.method \in {"Post", "Put"} THEN require_length(req.body) ELSE OkR("unit")

\* The match with the arm of Head calling the get hook.
method_arm_head_to_get(method) ==
    [hook |-> IF method = "Head" THEN "Get" ELSE method,
     with_body |-> method \in {"Post", "Put"}]

\* serve_one_inner, lines 230-244: the arm of the match taken for a method: the
\* hook it calls, named after its method, and whether request.body is passed.
method_arm(method) ==
    CASE method = "Delete" -> [hook |-> "Delete", with_body |-> FALSE]
      [] method = "Get" -> [hook |-> "Get", with_body |-> FALSE]
      [] method = "Head" -> [hook |-> "Head", with_body |-> FALSE]
      [] method = "Options" -> [hook |-> "Options", with_body |-> FALSE]
      [] method = "Post" -> [hook |-> "Post", with_body |-> TRUE]
      [] method = "Put" -> [hook |-> "Put", with_body |-> TRUE]
      [] method = "Trace" -> [hook |-> "Trace", with_body |-> FALSE]

\* serve_one_inner, lines 230-244: the match on request.method, up to the call of
\* the hook.
Dispatch(w) ==
    /\ pc[w] = "parsed"
    /\ LET req == request[w]
           chk == LengthChecked(req)
           arm == method_arm(req.method)
       IN  IF chk.ok
           THEN /\ calls' = Upd(calls, w, Append(calls[w],
                                <<arm.hook, req.uri, arm.with_body>>))
                /\ pc' = Upd(pc, w, "hook")
                /\ events' = Upd(events, w, Append(events[w], "hook"))
                /\ UNCHANGED <<response, pending>>
           ELSE /\ Respond(w, From_Error(chk.val), "length_required")
                /\ events' = Upd(events, w, Append(events[w], "length_failed"))
                /\ UNCHANGED calls
    /\ UNCHANGED <<mode, handler, connection_stream, conn, request, hook_result, forwarded,
                   wire, writes, result, logged>>

\* What the hook of the request's method returns: a provided hook when the
\* handler does not override it, else what the application's hook does.
HookResults(h, req) ==
    IF req.method \notin h.overrides
    THEN {[kind |-> "ok", read |-> FALSE, got |-> Unread, resp |-> default_hook(req).val,
           error |-> [err |-> "none", resp |-> NoBody]]}
    ELSE HookBehaviours(h, req)

\* The hook returns (or panics); line 245: .map_err(|e| e.into()).
HookReturn(w) ==
    /\ pc[w] = "hook"
    /\ \E b \in HookResults(handler, request[w]) :
        /\ forwarded' = Upd(forwarded, w, b.got)
        /\ hook_result' = Upd(hook_result, w, [kind |-> b.kind, resp |-> b.resp,
                                               error |-> b.error])
        /\ CASE b.kind = "ok" ->
                  /\ Respond(w, b.resp, "hook_ok")
                  /\ events' = Upd(events, w, Append(events[w], "hook_returned"))
             [] b.kind = "err" ->
                  /\ Respond(w, Into(handler.errType, b.error), "hook_err")
                  /\ events' = Upd(events, w, Append(events[w], "hook_returned"))
             [] b.kind = "panic" ->
                  /\ pc' = Upd(pc, w, "panicked")
                  /\ events' = Upd(events, w, Append(events[w], "hook_panicked"))
                  /\ UNCHANGED <<response, pending>>
    /\ UNCHANGED <<mode, handler, connection_stream, conn, request, calls, wire, writes,
                   result, logged>>

\* HttpResponse::serialize: the status line, then the header block up to its
\* blank line.
HeadBlock(r) == <<<<"status", r.status>>, <<"end", 0>>>>

BodyBytes(bytes) == [i \in 1..Len(bytes) |-> <<"byte", bytes[i]>>]

\* Write::write in the place of write_all: what a single write took is taken
\* for the whole.
write_once(buf) ==
    {[ok |-> TRUE, k |-> k] : k \in 1..Len(buf)} \cup {[ok |-> FALSE, k |-> 0]}

\* Write::write_all(buf) on the stream: every item is written, or the write
\* fails after some of them.  k is the number of items that got through.
write_all(buf) ==
    {[ok |-> TRUE, k |-> Len(buf)]} \cup {[ok |-> FALSE, k |-> k] : k \in 0..(Len(buf) - 1)}

\* serve_one, line 217: response.serialize(&mut stream)?  The write blocks while
\* the peer does not drain its end.
Serialize(w) ==
    /\ pc[w] = "respond"
    /\ conn[w].stall # "response"
    /\ \E o \in write_all(HeadBlock(response[w])) :
        /\ wire' = Upd(wire, w, wire[w] \o SubSeq(HeadBlock(response[w]), 1, o.k))
        /\ IF o.ok
           THEN /\ writes' = Upd(writes, w, Append(writes[w], "ok"))
                /\ events' = Upd(events, w, Append(events[w], "head"))
                /\ pc' = Upd(pc, w, "copy")
                /\ UNCHANGED result
           ELSE /\ writes' = Upd(writes, w, Append(writes[w], "failed"))
                /\ events' = Upd(events, w, Append(events[w], "head_failed"))
                /\ pc' = Upd(pc, w, "returned")
                /\ result' = Upd(result, w, "serialize_error")
    /\ UNCHANGED <<mode, handler, connection_stream, conn, request, calls, hook_result,
                   forwarded, response, pending, logged>>

\* Read::read(&mut buf) on a response body with `rest` left to yield: some bytes,
\* at most the buffer's capacity, or, at the end, Ok(0) or the stream's error.
read(rest, fails) ==
    IF rest = <<>>
    THEN {[ok |-> ~fails, len |-> 0]}
    ELSE {[ok |-> TRUE, len |-> n] : n \in 1..Min(BufSize, Len(rest))}

\* copy with the result of write_all ignored: the loop goes round.
copy_ignoring_failed_write == "copy"

\* After a write of copy's loop failed (line 100, the `?`): copy returns.
copy_after_failed_write == "returned"

\* copy returns after its first write instead of going round the loop.
copy_returns_after_first_write == "returned"

\* After a write of copy's loop succeeded (lines 101-102): the loop goes round.
copy_after_write == "copy"

\* The peer of the stream worker w holds has sent a second request on it.
Second(w) ==
    /\ streams.on
    /\ streams.of[w] # 0
    /\ streams.accepted[streams.of[w]].more

\* serve_one going back to parse the next request of the stream (keep-alive).
after_response_keep_alive(second) == IF second THEN "accepted" ELSE "returned"

\* serve_one, lines 218-220: the body copied, serve_one returns Ok(()), whatever
\* else the peer has sent on the stream.
after_response(second) == "returned"

\* io::copy, one turn of its loop (lines 94-102), as serve_one calls it on line
\* 218: io::copy(&mut response.body, &mut stream)?
Copy(w) ==
    /\ pc[w] = "copy"
    /\ \E r \in read(pending[w], response[w].fails) :
        IF r.len = 0
        THEN /\ pc' = Upd(pc, w, IF r.ok THEN after_response(Second(w)) ELSE "returned")
             /\ result' = Upd(result, w, IF r.ok THEN "Ok" ELSE "copy_read_error")
             /\ events' = Upd(events, w, Append(events[w],
                                 IF r.ok THEN "copied" ELSE "read_failed"))
             /\ UNCHANGED <<pending, wire, writes>>
        ELSE \E o \in write_all(SubSeq(pending[w], 1, r.len)) :
             /\ pending' = Upd(pending, w, SubSeq(pending[w], r.len + 1, Len(pending[w])))
             /\ wire' = Upd(wire, w, wire[w] \o BodyBytes(SubSeq(pending[w], 1, o.k)))
             /\ IF o.ok
                THEN /\ writes' = Upd(writes, w, Append(writes[w], "ok"))
                     /\ events' = Upd(events, w, Append(events[w], "body"))
                     /\ pc' = Upd(pc, w, copy_after_write)
                     /\ UNCHANGED result
                ELSE /\ writes' = Upd(writes, w, Append(writes[w], "failed"))
                     /\ events' = Upd(events, w, Append(events[w], "body_failed"))
                     /\ pc' = Upd(pc, w, copy_after_failed_write)
                     /\ result' = Upd(result, w, "copy_write_error")
    /\ UNCHANGED <<mode, handler, connection_stream, conn, request, calls, hook_result,
                   forwarded, response, logged>>

\* serve_one has returned: its stream and its response are dropped with it, and
\* nothing of the exchange is kept in the server.
Dropped(w) ==
    /\ conn' = Upd(conn, w, NoConn)
    /\ request' = Upd(request, w, NoRequest)
    /\ calls' = Upd(calls, w, <<>>)
    /\ hook_result' = Upd(hook_result, w, NoResult)
    /\ forwarded' = Upd(forwarded, w, Unread)
    /\ response' = Upd(response, w, NoResponse)
    /\ pending' = Upd(pending, w, <<>>)
    /\ wire' = Upd(wire, w, <<>>)
    /\ writes' = Upd(writes, w, <<>>)
    /\ events' = Upd(events, w, <<>>)
    /\ result' = Upd(result, w, "none")

\* serve_forever with `self.serve_one()?` in its loop: an Err leaves the loop.
serve_forever_propagating(res) == IF res = "Ok" THEN "idle" ELSE "exited"

\* serve_forever (lines 253-257): whatever serve_one returned, an Err being
\* printed, the loop goes round.
serve_forever_next(res) == "idle"

ServeForever(w) ==
    /\ mode = "serve_forever"
    /\ pc[w] = "returned"
    /\ pc' = Upd(pc, w, serve_forever_next(result[w]))
    /\ logged' = Upd(logged, w, IF result[w] = "Ok" THEN logged[w] ELSE result[w])
    /\ Dropped(w)
    /\ UNCHANGED <<mode, handler, connection_stream>>

\* A caller of serve_one (the thread of the module documentation, lines 55-60):
\* it calls serve_one again, or ends.
Caller(w) ==
    /\ mode = "serve_one"
    /\ pc[w] = "returned"
    /\ \E next \in {"idle", "exited"} : pc' = Upd(pc, w, next)
    /\ Dropped(w)
    /\ UNCHANGED <<mode, handler, connection_stream, logged>>

Servers == DOMAIN pc

(* The history of the accepted streams.  Each stream the listener hands out
   is a new one; of each the history keeps the serve_one invocations that
   read or wrote it, the requests parsed from it, the response heads written
   to it, whether its peer sent a second request, and whether it was dropped. *)

\* The most serve_one invocations a history follows.
MaxExchanges == 3

\* Listen::accept handed out a new stream; `more`: its peer sends two requests.
NewStream(more) == [by |-> {}, parses |-> 0, heads |-> 0, reads |-> 0, writes |-> 0,
                    more |-> more, dropped |-> FALSE, late |-> 0]

\* Worker w reads or writes the stream it holds.
Touch(w, kind) ==
    LET id == streams.of[w]
        st == streams.accepted[id]
    IN  [streams EXCEPT !.accepted[id] =
            [st EXCEPT !.by = @ \cup {<<w, streams.invocation[w]>>},
                       !.parses = @ + (IF kind = "parse" THEN 1 ELSE 0),
                       !.heads = @ + (IF kind = "head" THEN 1 ELSE 0),
                       !.reads = IF kind \in {"parse", "body_read"} THEN 1 ELSE @,
                       !.writes = IF kind \in {"head", "body"} THEN 1 ELSE @,
                       !.late = @ + (IF st.dropped THEN 1 ELSE 0)]]

Touched(w, kind) ==
    streams' = IF streams.on /\ streams.of[w] # 0 THEN Touch(w, kind) ELSE streams

\* The stream stays with the server when serve_one returns.
stream_kept_after_return(id) == id

\* serve_one, lines 210-221: the stream is a local of serve_one, gone when it
\* returns.
stream_after_return(id) == 0

\* serve_one is entered and calls accept.
TrackAccept(w) ==
    /\ streams.on => streams.invocation[w] < MaxExchanges
    /\ IF ~streams.on
       THEN UNCHANGED streams
       ELSE IF pc'[w] = "accepted"
       THEN \E more \in BOOLEAN :
              streams' = [streams EXCEPT !.invocation[w] = @ + 1,
                                         !.of[w] = Len(streams.accepted) + 1,
                                         !.accepted = Append(@, NewStream(more))]
       ELSE streams' = [streams EXCEPT !.invocation[w] = @ + 1]

\* serve_one returns.
TrackReturn(w) ==
    streams' = IF streams.on /\ streams.of[w] # 0
               THEN [streams EXCEPT !.of[w] = stream_after_return(@),
                                    !.accepted[streams.of[w]].dropped = TRUE]
               ELSE streams

Next ==
    \/ \E w \in Servers : Accept(w) /\ TrackAccept(w) /\ UNCHANGED <<io, th>>
    \/ \E w \in Servers : Deserialize(w) /\ Touched(w, "parse") /\ UNCHANGED <<io, th>>
    \/ \E w \in Servers : Dispatch(w) /\ UNCHANGED <<streams, io, th>>
    \/ \E w \in Servers :
          /\ HookReturn(w)
          /\ IF forwarded'[w] # Unread THEN Touched(w, "body_read") ELSE UNCHANGED streams
          /\ UNCHANGED <<io, th>>
    \/ \E w \in Servers : Serialize(w) /\ Touched(w, "head") /\ UNCHANGED <<io, th>>
    \/ \E w \in Servers :
          /\ Copy(w)
          /\ IF writes'[w] # writes[w] THEN Touched(w, "body") ELSE UNCHANGED streams
          /\ UNCHANGED <<io, th>>
    \/ \E w \in Servers : ServeForever(w) /\ TrackReturn(w) /\ UNCHANGED <<io, th>>
    \/ \E w \in Servers : Caller(w) /\ TrackReturn(w) /\ UNCHANGED <<io, th>>

Spec == Init /\ [][Next]_vars

----------------------------------------------------------------------------
(* Properties of serve_one *)

Count(seq, x) == Cardinality({i \in DOMAIN seq : seq[i] = x})

\* No write on the accepted stream failed.
NoWriteFailed(w) == \A i \in DOMAIN writes[w] : writes[w][i] = "ok"

\* The status lines on the wire.
StatusesOn(w) == {wire[w][i][2] : i \in {j \in DOMAIN wire[w] : wire[w][j][1] = "status"}}

\* serve_one_inner is over: a response was chosen, or serve_one has returned.
Answered(w) == pc[w] \in {"respond", "copy", "returned"} /\ response[w].origin # "none"

\* One whole response is on the wire: one status line and header block, then the
\* body, copied to the end of its stream.
OneResponse(w) ==
    /\ Count(events[w], "head") = 1
    /\ Count(events[w], "copied") = 1
    /\ wire[w] = HeadBlock(response[w]) \o BodyBytes(response[w].body)

FourCases == {"parse_error", "length_required", "hook_ok", "hook_err"}

\* C1 as stated: whenever serve_one has returned after a successful accept and
\* without a failed write, in each of the four cases exactly one response has been
\* written to the stream.
C1_Stated ==
    \A w \in Servers :
        (/\ pc[w] = "returned"
         /\ result[w] # "accept_error"
         /\ NoWriteFailed(w)
         /\ response[w].origin \in FourCases)
        => OneResponse(w)

\* C1, amended: whenever serve_one has returned after a successful accept, without
\* a failed write and without a failed read of the response body, in each of the
\* four cases exactly one response has been written to the stream, and serve_one
\* returned Ok.
C1_ExactlyOneResponse ==
    \A w \in Servers :
        (/\ pc[w] = "returned"
         /\ result[w] \notin {"accept_error", "copy_read_error"}
         /\ NoWriteFailed(w)
         /\ response[w].origin \in FourCases)
        => (OneResponse(w) /\ result[w] = "Ok" /\ Count(wire[w], HeadBlock(response[w])[1]) = 1)

C1_Witness ==
    \E w \in Servers :
        /\ pc[w] = "returned"
        /\ result[w] = "Ok"
        /\ response[w].origin = "hook_err"
        /\ Len(wire[w]) = 3

\* C2: for a POST or PUT request with neither Content-Length nor chunked
\* Transfer-Encoding, no hook is ever invoked, the response chosen is the 411 of
\* the length check, and no other status line reaches the wire.
C2_LengthRequired ==
    \A w \in Servers :
        (request[w].method \in {"Post", "Put"} /\ request[w].body.framing = "none")
        => /\ calls[w] = <<>>
           /\ hook_result[w] = NoResult
           /\ pc[w] \in {"parsed", "respond", "copy", "returned"}
           /\ pc[w] # "parsed" =>
                /\ response[w].origin = "length_required"
                /\ response[w].status = LengthRequired
           /\ StatusesOn(w) \subseteq {LengthRequired}
           /\ (pc[w] = "returned" /\ NoWriteFailed(w)) => OneResponse(w)

C2_Witness ==
    \E w \in Servers :
        /\ request[w].method = "Put"
        /\ request[w].body.framing = "none"
        /\ pc[w] = "returned"
        /\ result[w] = "Ok"
        /\ wire[w][1] = <<"status", LengthRequired>>

\* The error a response was converted from is the length-required error.
IsLengthRequired(w) ==
    \/ response[w].origin = "length_required"
    \/ response[w].origin = "hook_err" /\ hook_result[w].error.err = "LengthRequired"

ErrorStatus(w) == IF IsLengthRequired(w) THEN LengthRequired ELSE InternalServerError

\* C3 as stated: every response converted from a parse-time error or from an
\* error a hook returned has status 411 for the length-required error and 500
\* otherwise.
C3_Stated ==
    \A w \in Servers :
        response[w].origin \in {"parse_error", "length_required", "hook_err"}
        => response[w].status = ErrorStatus(w)

\* C3, amended: every response converted from an error::Error (a parse-time
\* error, the failed length check, or the error of a handler whose Error type is
\* error::Error) has status 411 for LengthRequired and 500 otherwise; the error of
\* a handler whose Error type is the response type is sent as the handler made
\* it, whatever its status.
C3_ErrorToResponse ==
    \A w \in Servers :
        /\ (\/ response[w].origin \in {"parse_error", "length_required"}
            \/ response[w].origin = "hook_err" /\ handler.errType = "Error")
           => /\ response[w].status = ErrorStatus(w)
              /\ response[w].fails = FALSE
        /\ (response[w].origin = "hook_err" /\ handler.errType = "Response")
           => /\ response[w].status = hook_result[w].error.resp.status
              /\ response[w].body = hook_result[w].error.resp.body

C3_Witness ==
    \E w \in Servers :
        /\ response[w].origin = "hook_err"
        /\ handler.errType = "Error"
        /\ hook_result[w].error.err = "LengthRequired"
        /\ request[w].method = "Get"
        /\ pc[w] = "returned"
        /\ result[w] = "Ok"
        /\ wire[w][1] = <<"status", LengthRequired>>


\* C4: for each of the seven methods, when the handler does not override the
\* method's hook (and, for POST and PUT, the request's length is determinable),
\* the hook invoked is the provided one, the response chosen is 405 Method Not
\* Allowed with a body that does not fail, no other status line reaches the wire,
\* and the whole 405 response is on the wire when serve_one returns without a
\* failed write.
C4_DefaultIs405 ==
    \A w \in Servers :
        (/\ request[w].method \in Methods \ handler.overrides
         /\ request[w].method \in {"Post", "Put"} => request[w].body.framing # "none")
        => /\ pc[w] \in {"parsed", "hook", "respond", "copy", "returned"}
           /\ Answered(w) =>
                /\ response[w].status = MethodNotAllowed
                /\ response[w].origin = "hook_ok"
                /\ calls[w] = <<<<request[w].method, request[w].uri,
                                 request[w].method \in {"Post", "Put"}>>>>
                /\ forwarded[w] = Unread
           /\ StatusesOn(w) \subseteq {MethodNotAllowed}
           /\ (pc[w] = "returned" /\ NoWriteFailed(w)) =>
                /\ OneResponse(w)
                /\ wire[w][1] = <<"status", MethodNotAllowed>>

C4_Witness ==
    \E w \in Servers :
        /\ request[w].method = "Post"
        /\ request[w].body.framing = "chunked"
        /\ handler.overrides = {"Get", "Put"}
        /\ pc[w] = "returned"
        /\ result[w] = "Ok"
        /\ wire[w] = <<<<"status", MethodNotAllowed>>, <<"end", 0>>, <<"byte", 80>>>>

\* C5: under serve_forever a server never leaves the loop, and whatever serve_one
\* returned (Ok, an accept error, a failed write of the head, a failed copy of the
\* body), the step that follows the return takes the server back to where it
\* calls accept.
C5_LoopGoesOn ==
    [][\A w \in Servers :
        mode = "serve_forever" =>
            /\ pc'[w] # "exited"
            /\ (pc[w] = "returned" /\ pc'[w] # pc[w]) =>
                 (pc'[w] = "idle" /\ CanAccept(w)')]_vars

C5_Witness ==
    \E w \in Servers :
        /\ mode = "serve_forever"
        /\ logged[w] = "copy_write_error"
        /\ pc[w] = "accepted"

\* C6: for a request that fails to parse, no hook is invoked and a response is
\* chosen at once: the 500 converted from the parse error; when serve_one returns
\* without a failed write the whole response is on the wire and serve_one
\* returned Ok.
C6_MalformedRequest ==
    \A w \in Servers :
        (conn[w].line = "bad" /\ pc[w] # "accepted")
        => /\ calls[w] = <<>>
           /\ hook_result[w] = NoResult
           /\ pc[w] \in {"respond", "copy", "returned"}
           /\ response[w].origin = "parse_error"
           /\ response[w].status = InternalServerError
           /\ StatusesOn(w) \subseteq {InternalServerError}
           /\ (pc[w] = "returned" /\ NoWriteFailed(w)) =>
                /\ result[w] = "Ok"
                /\ wire[w] = HeadBlock(response[w]) \o BodyBytes(response[w].body)

C6_Witness ==
    \E w \in Servers :
        /\ conn[w].line = "bad"
        /\ pc[w] = "returned"
        /\ result[w] = "Ok"
        /\ wire[w] = <<<<"status", InternalServerError>>, <<"end", 0>>, <<"byte", 101>>>>


\* A POST or PUT request whose chunked body has a malformed chunk-size line.
MalformedChunked(w) ==
    /\ request[w].method \in {"Post", "Put"}
    /\ request[w].body.framing = "chunked"
    /\ request[w].body.bad

\* C7 as stated: for a chunked request body with a malformed chunk-size line the
\* response is 500, and no byte of the chunks before the malformed line reaches
\* the hook.
C7_Stated ==
    \A w \in Servers :
        MalformedChunked(w)
        => /\ forwarded[w].data = <<>>
           /\ pc[w] # "panicked"
           /\ Answered(w) => response[w].status = InternalServerError

\* C7, amended: the server reads nothing of a chunked request body before it
\* invokes the POST or PUT hook with the body stream; the malformed chunk-size
\* line fails the hook's read of the body, after the bytes of the chunks before
\* it were delivered to the hook; the response is 500 when the hook returns that
\* error.  A hook that does not read its body, or does not return the error,
\* decides the outcome itself.
C7_MalformedChunk ==
    \A w \in Servers :
        MalformedChunked(w)
        => /\ pc[w] # "parsed" =>
                calls[w] = <<<<request[w].method, request[w].uri, TRUE>>>>
           /\ forwarded[w].end \in {"unread", "error"}
           /\ forwarded[w].end = "error" =>
                /\ forwarded[w].data = Iota(request[w].body.n)
                /\ hook_result[w].kind \in {"err", "panic"}
                /\ hook_result[w].kind = "err" =>
                     /\ response[w].origin = "hook_err"
                     /\ response[w].status = InternalServerError
                     /\ StatusesOn(w) \subseteq {InternalServerError}

C7_Witness ==
    \E w \in Servers :
        /\ MalformedChunked(w)
        /\ forwarded[w] = [data |-> <<1>>, end |-> "error"]
        /\ pc[w] = "returned"
        /\ result[w] = "Ok"
        /\ wire[w][1] = <<"status", InternalServerError>>

\* The place of a step in an exchange.
Rank(e) ==
    CASE e = "accept" -> 1
      [] e \in {"parse", "parse_failed"} -> 2
      [] e \in {"hook", "length_failed"} -> 3
      [] e \in {"hook_returned", "hook_panicked"} -> 4
      [] e \in {"head", "head_failed"} -> 5
      [] e \in {"body", "body_failed"} -> 6
      [] e \in {"copied", "read_failed"} -> 7

InOrder(ev) ==
    \A i \in 1..(Len(ev) - 1) :
        \/ Rank(ev[i]) < Rank(ev[i + 1])
        \/ ev[i] = "body" /\ ev[i + 1] \in {"body", "body_failed"}

Has(ev, e) == \E i \in DOMAIN ev : ev[i] = e

\* C8: the steps of an exchange come in the order accept, parse, hook invoked,
\* hook returned, head written, body copied, none without the one before it;
\* nothing is on the wire before serve_one_inner is over (the hook returned, or
\* an error took its place); no byte of the body is on the wire unless the whole
\* status line and header block is there before it.
C8_Order ==
    \A w \in Servers :
        /\ InOrder(events[w])
        /\ events[w] # <<>> => events[w][1] = "accept"
        /\ (Has(events[w], "hook") \/ Has(events[w], "length_failed"))
             => Has(events[w], "parse")
        /\ Has(events[w], "hook_returned") => Has(events[w], "hook")
        /\ (Has(events[w], "head") \/ Has(events[w], "head_failed"))
             => \/ Has(events[w], "hook_returned")
                \/ Has(events[w], "parse_failed")
                \/ Has(events[w], "length_failed")
        /\ (Has(events[w], "body") \/ Has(events[w], "body_failed")
              \/ Has(events[w], "copied") \/ Has(events[w], "read_failed"))
             => Has(events[w], "head")
        /\ wire[w] # <<>> =>
             /\ response[w].origin # "none"
             /\ pc[w] \in {"copy", "returned"}
             /\ response[w].origin \in {"hook_ok", "hook_err"} => hook_result[w] # NoResult
        /\ \A i \in DOMAIN wire[w] :
             wire[w][i][1] = "byte" =>
                /\ i > Len(HeadBlock(response[w]))
                /\ SubSeq(wire[w], 1, Len(HeadBlock(response[w]))) = HeadBlock(response[w])
                /\ Has(events[w], "head")

C8_Witness ==
    \E w \in Servers :
        /\ pc[w] = "copy"
        /\ response[w].origin = "hook_ok"
        /\ events[w] = <<"accept", "parse", "hook", "hook_returned", "head", "body", "body">>
        /\ pending[w] # <<>>

\* C9: a failed write is the last write of the exchange; once a write failed,
\* serve_one has returned that error and no step of it is left to take; when the
\* write of the head failed, nothing was read from the response body and no byte
\* of it was written; when a write of the body copy failed, what is on the wire
\* is the head and a proper prefix of what was read from the body.
C9_NoRetry ==
    \A w \in Servers :
        /\ \A i \in DOMAIN writes[w] : writes[w][i] = "failed" => i = Len(writes[w])
        /\ ~NoWriteFailed(w) =>
             /\ pc[w] = "returned"
             /\ result[w] \in {"serialize_error", "copy_write_error"}
             /\ ~ENABLED Serialize(w)
             /\ ~ENABLED Copy(w)
        /\ result[w] = "serialize_error" =>
             /\ writes[w] = <<"failed">>
             /\ pending[w] = response[w].body
             /\ Len(wire[w]) < Len(HeadBlock(response[w]))
             /\ wire[w] = SubSeq(HeadBlock(response[w]), 1, Len(wire[w]))
        /\ result[w] = "copy_write_error" =>
             /\ writes[w][Len(writes[w])] = "failed"
             /\ Len(wire[w]) + Len(pending[w])
                  < Len(HeadBlock(response[w])) + Len(response[w].body)
             /\ wire[w] = SubSeq(HeadBlock(response[w]) \o BodyBytes(response[w].body),
                                 1, Len(wire[w]))
        /\ result[w] \in {"serialize_error", "copy_write_error"} => ~NoWriteFailed(w)

C9_Witness ==
    \E w \in Servers :
        /\ result[w] = "copy_write_error"
        /\ writes[w] = <<"ok", "ok", "failed">>
        /\ Len(wire[w]) = 3
        /\ pending[w] # <<>>


----------------------------------------------------------------------------
(* The service run with one worker per connection: NumWorkers workers, each with
   an HttpServer of its own on the same listener. *)

\* The peers of the pool's listener: well-formed and malformed requests, and
\* peers that stall before their request is complete or do not drain their
\* response.
PoolPeers ==
    {c \in Peers :
        \/ c.stall = "request"
        \/ c.line = "bad"
        \/ c.method = "Get" /\ c.uri = "/a" /\ c.framing = "none"}

InitPool ==
    /\ InitOf(1..NumWorkers)
    /\ handler = [overrides |-> {}, errType |-> "Error"]
    /\ connection_stream = PoolPeers

SpecPool == InitPool /\ [][Next]_vars

StepOf(w) ==
    \/ Accept(w)
    \/ Deserialize(w)
    \/ Dispatch(w)
    \/ HookReturn(w)
    \/ Serialize(w)
    \/ Copy(w)
    \/ ServeForever(w)
    \/ Caller(w)

\* The worker is inside a read or a write that its peer never lets complete.
Blocked(w) ==
    \/ pc[w] = "accepted" /\ conn[w].stall = "request"
    \/ pc[w] = "respond" /\ conn[w].stall = "response"

\* C10: while a worker is blocked by a stalled peer, that worker takes no step,
\* and every other worker goes on: one that is outside serve_one can accept, and
\* one that is inside an exchange whose peer does not stall has its next step to
\* take.
C10_StallBlocksOneWorker ==
    \A w \in Servers :
        Blocked(w) =>
            /\ ~ENABLED StepOf(w)
            /\ \A v \in Servers \ {w} :
                 /\ pc[v] = "idle" => ENABLED Accept(v)
                 /\ (pc[v] \notin {"panicked", "exited"} /\ ~Blocked(v)) => ENABLED StepOf(v)

C10_Witness ==
    \E w, v \in Servers :
        /\ w # v
        /\ Blocked(w)
        /\ conn[w].stall = "request"
        /\ logged[w] = "none"
        /\ mode = "serve_forever"
        /\ logged[v] = "serialize_error"
        /\ pc[v] = "returned"
        /\ result[v] = "Ok"

\* C14: for a request that was parsed, at most one hook is called; it is the
\* hook of the request's method, called with the request's URI as the peer sent
\* it; the post and put hooks are given the body stream of the request as well,
\* the other hooks no body, so that what a hook reads is that request's body or
\* nothing.
C14_Dispatch ==
    \A w \in Servers :
        /\ request[w] = NoRequest => calls[w] = <<>>
        /\ request[w] # NoRequest =>
             /\ Len(calls[w]) <= 1
             /\ pc[w] \in {"hook", "panicked"} => Len(calls[w]) = 1
             /\ calls[w] # <<>> =>
                  /\ calls[w][1][1] = request[w].method
                  /\ calls[w][1][2] = request[w].uri
                  /\ calls[w][1][2] = conn[w].uri
                  /\ calls[w][1][3] = (request[w].method \in {"Post", "Put"})
                  /\ forwarded[w] \in {Unread} \cup
                        (IF calls[w][1][3] THEN {body_read(request[w].body)} ELSE {})

C14_Witness ==
    \E w \in Servers :
        /\ pc[w] = "returned"
        /\ request[w].method = "Head"
        /\ "Head" \in handler.overrides
        /\ calls[w] = <<<<"Head", "/b", FALSE>>>>
        /\ hook_result[w].kind = "ok"
        /\ result[w] = "Ok"

\* C15: when the hook returned Ok(response), what is written to the connection
\* is the status line and headers of that response and then the bytes its body
\* stream produced, in their order: at any moment a front part of that sequence,
\* nothing else between or after, and the whole of it once serve_one has
\* returned with no write failed.
C15_HookResponseOnWire ==
    \A w \in Servers :
        response[w].origin = "hook_ok" =>
            LET r == hook_result[w].resp
                whole == HeadBlock(r) \o BodyBytes(r.body)
            IN  /\ response[w].status = r.status
                /\ IsPrefix(wire[w], whole)
                /\ (pc[w] = "returned" /\ NoWriteFailed(w)) => wire[w] = whole

C15_Witness ==
    \E w \in Servers :
        /\ response[w].origin = "hook_ok"
        /\ request[w].method = "Get"
        /\ pc[w] = "returned"
        /\ result[w] = "Ok"
        /\ wire[w] = <<<<"status", OK>>, <<"end", 0>>, <<"byte", 1>>, <<"byte", 2>>,
                       <<"byte", 3>>>>
        /\ Len(writes[w]) = 4

(* One server, its serve_one invocations followed over the streams they
   accept. *)

InitStreams ==
    /\ mode \in {"serve_one", "serve_forever"}
    /\ ServerFields({1})
    /\ handler = [overrides |-> {}, errType |-> "Error"]
    /\ connection_stream = PoolPeers
    /\ streams = [on |-> TRUE, invocation |-> [w \in {1} |-> 0], of |-> [w \in {1} |-> 0],
                  accepted |-> <<>>]
    /\ io = NoIo
    /\ th = NoTh

SpecStreams == InitStreams /\ [][Next]_vars

\* C13: a serve_one invocation calls accept once and parses at most one request
\* from the stream it accepted; when it returns the stream is dropped and the
\* server holds none; no stream is read or written by two invocations, nor after
\* it was dropped; and of a peer that sent a second request on its connection
\* one request at most is parsed and one response head at most is written.
C13_OneExchangePerStream ==
    streams.on =>
        /\ \A w \in Servers :
             /\ Count(events[w], "accept") = (IF conn[w] = NoConn THEN 0 ELSE 1)
             /\ Count(events[w], "parse") + Count(events[w], "parse_failed") <= 1
             /\ pc[w] \in {"idle", "exited"} => streams.of[w] = 0
             /\ pc[w] \in {"accepted", "parsed", "hook", "respond", "copy"} =>
                  /\ streams.of[w] = Len(streams.accepted)
                  /\ ~streams.accepted[streams.of[w]].dropped
        /\ \A id \in DOMAIN streams.accepted :
             LET st == streams.accepted[id]
             IN  /\ Cardinality(st.by) <= 1
                 /\ st.late = 0
                 /\ st.parses <= 1
                 /\ st.heads <= 1
                 /\ (\A w \in Servers : streams.of[w] # id) => st.dropped

C13_Witness ==
    /\ streams.on
    /\ Len(streams.accepted) = 2
    /\ streams.accepted[1].more
    /\ streams.accepted[1].dropped
    /\ streams.accepted[1].parses = 1
    /\ streams.accepted[1].heads = 1
    /\ streams.accepted[1].by = {<<1, 1>>}
    /\ streams.accepted[2].by = {<<1, 2>>}
    /\ streams.accepted[2].writes = 1
    /\ pc[1] = "copy"

----------------------------------------------------------------------------
(* io.rs: the stream utilities, each on its own under a sequence of reads *)

\* The most reads made of one utility.
MaxReads == 4

serverVars == <<mode, handler, connection_stream, pc, conn, request, calls, hook_result,
                forwarded, response, pending, wire, writes, events, result, logged,
                streams>>

\* No server: the utilities of io.rs are exercised without one.
NoServer ==
    /\ mode = "serve_one"
    /\ handler = [overrides |-> {}, errType |-> "Error"]
    /\ connection_stream = {}
    /\ ServerFields({})
    /\ streams = NoStreams({})

\* The streams a reader is built on: n bytes 1, 2, .., n.  `reads` counts the
\* calls of the stream's read and `taken` is what they delivered; a `bad` stream
\* may fail any read.
InnerStreams ==
    {[data |-> Iota(n), bad |-> b, reads |-> 0, taken |-> <<>>] :
        n \in 0..MaxBody, b \in BOOLEAN}

\* Read::read of a stream into a buffer of k bytes: Ok(n) with the n bytes at
\* the front of the stream, 1 <= n <= k, Ok(0) at the end of the stream or into
\* an empty buffer; or an error, the stream left where it was.
stream_read(s, k) ==
    LET counts == IF k = 0 \/ s.data = <<>> THEN {0} ELSE 1..Min(k, Len(s.data))
    IN  {[stream |-> [s EXCEPT !.data = DropFront(@, n),
                               !.taken = @ \o Front(s.data, n),
                               !.reads = @ + 1],
          ok |-> TRUE, bytes |-> Front(s.data, n)] : n \in counts}
        \cup {[stream |-> [s EXCEPT !.reads = @ + 1], ok |-> FALSE, bytes |-> <<>>] :
                 e \in {TRUE} \cap {s.bad}}

(* Take *)

\* Take::read reading as much as the buffer holds, the limit not looked at.
Take_read_unclamped(self, k) ==
    {[self |-> [inner |-> o.stream, limit |-> self.limit - Len(o.bytes)],
      ok |-> o.ok, bytes |-> o.bytes] : o \in stream_read(self.inner, k)}

\* Take::read without the early return of lines 130-132.
Take_read_without_early_return(self, k) ==
    {[self |-> [inner |-> o.stream, limit |-> self.limit - Len(o.bytes)],
      ok |-> o.ok, bytes |-> o.bytes] : o \in stream_read(self.inner, Min(k, self.limit))}

\* Take::read (lines 129-138) into a buffer of k bytes: the outcomes, each with
\* the Take as the read leaves it.
Take_read(self, k) ==
    IF self.limit = 0
    THEN {[self |-> self, ok |-> TRUE, bytes |-> <<>>]}
    ELSE LET max == Min(k, self.limit)
         IN  {IF o.ok
              THEN [self |-> [inner |-> o.stream, limit |-> self.limit - Len(o.bytes)],
                    ok |-> TRUE, bytes |-> o.bytes]
              ELSE [self |-> [self EXCEPT !.inner = o.stream], ok |-> FALSE,
                    bytes |-> <<>>] : o \in stream_read(self.inner, max)}

\* A Take of limit N on a stream that holds fewer, as many or more bytes.
TakeInits ==
    {[kind |-> "take", self |-> [inner |-> s, limit |-> N], source |-> s.data,
      initial |-> N, yielded |-> <<>>, reads |-> 0, ok |-> TRUE, bytes |-> <<>>] :
        s \in InnerStreams, N \in 0..(MaxBody + 1)}

\* One read of the Take, into a buffer of any size.
TakeRead ==
    /\ io.kind = "take"
    /\ io.reads < MaxReads
    /\ \E k \in 0..BufSize : \E o \in Take_read(io.self, k) :
          io' = [io EXCEPT !.self = o.self, !.yielded = @ \o o.bytes,
                           !.reads = @ + 1, !.ok = o.ok, !.bytes = o.bytes]

(* BufReader *)

BufReader_new(inner) == [inner |-> inner]

BufReader_into_inner(self) == self.inner

\* A BufReader that fills a buffer of its own from the stream under it and hands
\* out of it the bytes asked for.
BufReader_read_ahead(self, k) ==
    {[self |-> [inner |-> o.stream], ok |-> o.ok,
      bytes |-> Front(o.bytes, Min(k, Len(o.bytes)))] :
        o \in stream_read(self.inner, BufSize)}

\* Read::read of BufReader (lines 80-82) into a buffer of k bytes:
\* self.inner.read(buf).
BufReader_Read_read(self, k) ==
    {[self |-> [inner |-> o.stream], ok |-> o.ok, bytes |-> o.bytes] :
        o \in stream_read(self.inner, k)}

BufReaderInits ==
    {[kind |-> "bufreader", self |-> BufReader_new(s), before |-> BufReader_new(s),
      source |-> s.data, delivered |-> <<>>, reads |-> 0, k |-> 0, ok |-> TRUE,
      bytes |-> <<>>, unwrapped |-> FALSE, stream |-> s] : s \in InnerStreams}

\* One read of the BufReader, into a buffer of any size.
BufReaderRead ==
    /\ io.kind = "bufreader"
    /\ ~io.unwrapped
    /\ io.reads < MaxReads
    /\ \E k \in 0..BufSize : \E o \in BufReader_Read_read(io.self, k) :
          io' = [io EXCEPT !.self = o.self, !.before = io.self,
                           !.delivered = @ \o o.bytes, !.reads = @ + 1, !.k = k,
                           !.ok = o.ok, !.bytes = o.bytes]

\* into_inner: the BufReader is given up for the stream under it.
BufReaderIntoInner ==
    /\ io.kind = "bufreader"
    /\ ~io.unwrapped
    /\ io' = [io EXCEPT !.unwrapped = TRUE, !.stream = BufReader_into_inner(io.self)]

(* copy *)

\* copy taking a failed read for the end of the reader.
copy_read_arm_error_as_end(r, written) == [pc |-> "returned", ok |-> TRUE, n |-> written]

\* copy, lines 95-99: the match on the result of reader.read(&mut buf), `written`
\* being the count so far.
copy_read_arm(r, written) ==
    IF r.ok
    THEN IF Len(r.bytes) = 0
         THEN [pc |-> "returned", ok |-> TRUE, n |-> written]
         ELSE [pc |-> "write", ok |-> TRUE, n |-> written]
    ELSE [pc |-> "returned", ok |-> FALSE, n |-> 0]

\* io::copy(reader, writer) entered: `written` is 0.
CopyInits ==
    {[kind |-> "copy", reader |-> s, source |-> s.data, writer |-> <<>>,
      written |-> 0, writes |-> 0, chunk |-> <<>>, pc |-> "copy", ok |-> TRUE,
      n |-> 0, failed |-> "none"] : s \in InnerStreams}

\* One turn of copy's loop (lines 94-102): a read into the buffer and, of what
\* was read, a write_all.
CopyTurn ==
    /\ io.kind = "copy"
    /\ io.pc = "copy"
    /\ \E r \in stream_read(io.reader, BufSize) :
         LET arm == copy_read_arm(r, io.written)
         IN  IF arm.pc = "returned"
             THEN io' = [io EXCEPT !.reader = r.stream, !.pc = "returned",
                                   !.ok = arm.ok, !.n = arm.n, !.chunk = r.bytes,
                                   !.failed = IF arm.ok THEN "none" ELSE "read"]
             ELSE \E o \in write_all(r.bytes) :
                    io' = [io EXCEPT !.reader = r.stream, !.chunk = r.bytes,
                                     !.writer = @ \o Front(r.bytes, o.k),
                                     !.writes = @ + 1,
                                     !.written = IF o.ok THEN @ + Len(r.bytes) ELSE @,
                                     !.pc = IF o.ok THEN copy_after_write
                                            ELSE copy_after_failed_write,
                                     !.ok = o.ok,
                                     !.failed = IF o.ok THEN "none" ELSE "write"]

(* &[u8] *)

\* Read::read of a slice (lines 198-209) into a buffer of k bytes.
slice_read(self, k) ==
    LET amt == Min(k, Len(self))
    IN  [self |-> DropFront(self, amt), ok |-> TRUE, bytes |-> Front(self, amt)]

\* read_exact that copies what the slice has before it reports the shortfall.
slice_read_exact_partial(self, k) ==
    IF k > Len(self)
    THEN [self |-> <<>>, ok |-> FALSE, bytes |-> self]
    ELSE [self |-> DropFront(self, k), ok |-> TRUE, bytes |-> Front(self, k)]

\* Read::read_exact of a slice (lines 211-225) into a buffer of k bytes: `bytes`
\* is what was copied into the buffer.
slice_read_exact(self, k) ==
    IF k > Len(self)
    THEN [self |-> self, ok |-> FALSE, bytes |-> <<>>]
    ELSE [self |-> DropFront(self, k), ok |-> TRUE, bytes |-> Front(self, k)]

SliceInits ==
    {[kind |-> "slice", self |-> Iota(n), before |-> Iota(n), op |-> "none",
      reads |-> 0, k |-> 0, ok |-> TRUE, bytes |-> <<>>] : n \in 0..MaxBody}

SliceRead ==
    /\ io.kind = "slice"
    /\ io.reads < MaxReads
    /\ \E k \in 0..(BufSize + 1) :
         LET o == slice_read(io.self, k)
         IN  io' = [io EXCEPT !.self = o.self, !.before = io.self, !.op = "read",
                              !.reads = @ + 1, !.k = k, !.ok = o.ok, !.bytes = o.bytes]

SliceReadExact ==
    /\ io.kind = "slice"
    /\ io.reads < MaxReads
    /\ \E k \in 0..(BufSize + 1) :
         LET o == slice_read_exact(io.self, k)
         IN  io' = [io EXCEPT !.self = o.self, !.before = io.self, !.op = "read_exact",
                              !.reads = @ + 1, !.k = k, !.ok = o.ok, !.bytes = o.bytes]

(* Cursor *)

Cursor_new(inner) == [inner |-> inner, pos |-> 0]

\* fill_buf that hands out the data from its start, whatever the position.
Cursor_fill_buf_from_start(self) == self.inner

\* Cursor::fill_buf (lines 179-182): the data from the position on.
Cursor_fill_buf(self) == DropFront(self.inner, Min(self.pos, Len(self.inner)))

\* Read::read of Cursor (lines 186-193) into a buffer of k bytes.
Cursor_read(self, k) ==
    LET o == slice_read(Cursor_fill_buf(self), k)
    IN  [self |-> [self EXCEPT !.pos = @ + Len(o.bytes)], ok |-> TRUE, bytes |-> o.bytes]

CursorInits ==
    {[kind |-> "cursor", self |-> Cursor_new(Iota(n)), before |-> Cursor_new(Iota(n)),
      returned |-> <<>>, reads |-> 0, k |-> 0, ok |-> TRUE, bytes |-> <<>>] :
        n \in 0..MaxBody}

CursorRead ==
    /\ io.kind = "cursor"
    /\ io.reads < MaxReads
    /\ \E k \in 0..(BufSize + 1) :
         LET o == Cursor_read(io.self, k)
         IN  io' = [io EXCEPT !.self = o.self, !.before = io.self,
                              !.returned = @ \o o.bytes, !.reads = @ + 1, !.k = k,
                              !.ok = o.ok, !.bytes = o.bytes]

InitIo ==
    /\ NoServer
    /\ th = NoTh
    /\ io \in TakeInits \cup BufReaderInits \cup CopyInits \cup SliceInits \cup CursorInits

NextIo ==
    \/ TakeRead /\ UNCHANGED <<serverVars, th>>
    \/ BufReaderRead /\ UNCHANGED <<serverVars, th>>
    \/ BufReaderIntoInner /\ UNCHANGED <<serverVars, th>>
    \/ CopyTurn /\ UNCHANGED <<serverVars, th>>
    \/ SliceRead /\ UNCHANGED <<serverVars, th>>
    \/ SliceReadExact /\ UNCHANGED <<serverVars, th>>
    \/ CursorRead /\ UNCHANGED <<serverVars, th>>

SpecIo == InitIo /\ [][NextIo]_vars

\* C11: a Take of limit N yields at most N bytes over all its reads, whatever
\* the sizes of their buffers and however much the stream under it holds; the
\* limit left plus the bytes yielded is always N, the limit never going below
\* zero; and the Take has taken from the stream under it exactly the bytes it
\* yielded, the front of the stream, the rest of the stream being still there to
\* read.
C11_TakeWithinLimit ==
    io.kind = "take" =>
        /\ Len(io.yielded) <= io.initial
        /\ io.self.limit >= 0
        /\ io.initial = io.self.limit + Len(io.yielded)
        /\ io.self.inner.taken = io.yielded
        /\ io.yielded \o io.self.inner.data = io.source

C11_Witness ==
    /\ io.kind = "take"
    /\ io.initial = 2
    /\ Len(io.source) = 3
    /\ io.self.limit = 0
    /\ io.yielded = <<1, 2>>
    /\ io.self.inner.data = <<3>>
    /\ io.reads = 3

\* C12: a read of a Take whose limit is 0 returns Ok(0) and makes no read of the
\* stream under it, whether that stream holds bytes or not and whether its reads
\* fail or not.
C12_ExhaustedTakeReadsNothing ==
    [][(io.kind = "take" /\ io.self.limit = 0 /\ io'.reads = io.reads + 1) =>
          /\ io'.ok
          /\ io'.bytes = <<>>
          /\ io'.self = io.self
          /\ io'.yielded = io.yielded]_vars

C12_Witness ==
    /\ io.kind = "take"
    /\ io.initial = 0
    /\ io.reads = 2
    /\ io.self.inner.bad
    /\ io.self.inner.data # <<>>
    /\ io.self.inner.reads = 0
    /\ io.ok

\* C17: a read of a BufReader makes exactly one read of the stream under it,
\* into the same buffer, and returns what that read returned; the bytes taken
\* from the stream under it are the bytes the BufReader delivered, no more; and
\* into_inner gives back the stream with every byte not delivered still to read.
C17_BufReaderPassesThrough ==
    io.kind = "bufreader" =>
        /\ io.self.inner.reads = io.reads
        /\ io.self.inner.taken = io.delivered
        /\ io.delivered \o io.self.inner.data = io.source
        /\ io.reads > 0 =>
             \E o \in stream_read(io.before.inner, io.k) :
                 /\ io.self.inner = o.stream
                 /\ io.ok = o.ok
                 /\ io.bytes = o.bytes
        /\ io.unwrapped =>
             /\ io.stream = io.self.inner
             /\ io.delivered \o io.stream.data = io.source

C17_Witness ==
    /\ io.kind = "bufreader"
    /\ io.unwrapped
    /\ io.reads = 2
    /\ io.delivered = <<1>>
    /\ io.stream.data = <<2, 3>>
    /\ ~io.ok

C19_ReadExactAllOrNothing ==
    (io.kind = "slice" /\ io.op = "read_exact") =>
        IF io.k > Len(io.before)
        THEN /\ ~io.ok
             /\ io.bytes = <<>>
             /\ io.self = io.before
        ELSE /\ io.ok
             /\ Len(io.bytes) = io.k
             /\ io.bytes \o io.self = io.before

C19_Witness ==
    /\ io.kind = "slice"
    /\ io.op = "read_exact"
    /\ io.k = 3
    /\ io.before = <<2, 3>>
    /\ ~io.ok
    /\ io.self = <<2, 3>>

\* C20: the position of a Cursor over data of L bytes is never beyond L; what
\* its reads returned, joined, is the first `pos` bytes of the data; a read into
\* a buffer of k bytes returns min(k, L - pos) bytes; and a read at position L
\* returns 0.
C20_Cursor ==
    io.kind = "cursor" =>
        LET L == Len(io.self.inner)
        IN  /\ io.self.pos <= L
            /\ io.returned = Front(io.self.inner, io.self.pos)
            /\ io.reads > 0 =>
                 /\ io.ok
                 /\ Len(io.bytes) = Min(io.k, L - io.before.pos)
                 /\ io.self.pos = io.before.pos + Len(io.bytes)
                 /\ io.before.pos = L => io.bytes = <<>>

C20_Witness ==
    /\ io.kind = "cursor"
    /\ Len(io.self.inner) = 3
    /\ io.before.pos = 3
    /\ io.k = 2
    /\ io.reads = 3
    /\ io.bytes = <<>>
    /\ io.returned = <<1, 2, 3>>

----------------------------------------------------------------------------
(* TestRequestHandler: the scripted handler of the tests *)

\* The longest script a test gives its handler.
MaxScript == 2

\* ExpectedRequest (lines 262-270).
ExpectedRequests ==
    {[expected_method |-> m, expected_uri |-> u, expected_body |-> Iota(n),
      response_status |-> r[1], response_body |-> r[2]] :
        m \in {"Get", "Put"}, u \in URIs, n \in 0..1, r \in {<<OK, <<1>>>>, <<404, <<>>>>}}

Scripts == UNION {[1..n -> ExpectedRequests] : n \in 0..MaxScript}

TestRequestHandler_new(script) == [script |-> script]

\* The body streams a put hook is given: their text, and whether reading them
\* to the end fails.
PutBodies == {[data |-> Iota(n), bad |-> b] : n \in 0..1, b \in BOOLEAN}

NoEntry == [expected_method |-> "none", expected_uri |-> "none", expected_body |-> <<>>,
            response_status |-> 0, response_body |-> <<>>]

\* What is left of a hook call that panicked, the entry taken or not.
Panicked(self, entry) == [self |-> self, request |-> entry, kind |-> "panic",
                            resp |-> NoBody]

\* The get hook taking the last entry of the script: script.pop().
TestRequestHandler_get_pop(self, uri) ==
    IF self.script = <<>>
    THEN Panicked(self, NoEntry)
    ELSE LET entry == self.script[Len(self.script)]
             left == [script |-> Front(self.script, Len(self.script) - 1)]
         IN  IF entry.expected_method # "Get" \/ entry.expected_uri # uri
             THEN Panicked(left, entry)
             ELSE [self |-> left, request |-> entry, kind |-> "ok",
                   resp |-> from_string(entry.response_status, entry.response_body)]

\* TestRequestHandler::get (lines 291-300).  remove(0) panics on an empty script;
\* a failed assert_eq! panics with the entry already taken.
TestRequestHandler_get(self, uri) ==
    IF self.script = <<>>
    THEN Panicked(self, NoEntry)
    ELSE LET entry == Head(self.script)
             left == [script |-> Tail(self.script)]
         IN  IF entry.expected_method # "Get" \/ entry.expected_uri # uri
             THEN Panicked(left, entry)
             ELSE [self |-> left, request |-> entry, kind |-> "ok",
                   resp |-> from_string(entry.response_status, entry.response_body)]

\* TestRequestHandler::put (lines 302-319): the body is read to its end, a
\* failed read making the unwrap panic.
TestRequestHandler_put(self, uri, stream) ==
    IF self.script = <<>>
    THEN Panicked(self, NoEntry)
    ELSE LET entry == Head(self.script)
             left == [script |-> Tail(self.script)]
         IN  IF \/ entry.expected_method # "Put"
                \/ entry.expected_uri # uri
                \/ stream.bad
                \/ entry.expected_body # stream.data
             THEN Panicked(left, entry)
             ELSE [self |-> left, request |-> entry, kind |-> "ok",
                   resp |-> from_string(entry.response_status, entry.response_body)]

\* Drop for TestRequestHandler (lines 323-327): assert_eq!(&self.script, &vec![]).
TestRequestHandler_drop(self) == IF self.script = <<>> THEN "passed" ELSE "failed"

\* A handler with its script, no request served yet.  `served` is the hook calls
\* that took an entry, each with its request and whether the hook returned.
TestInits ==
    {[kind |-> "test", self |-> TestRequestHandler_new(sc), initial |-> sc,
      served |-> <<>>, hooks |-> 0, state |-> "alive", drop |-> "none"] : sc \in Scripts}

\* The record of a hook call in th, o being its outcome.
AfterHook(method, uri, stream, o) ==
    [th EXCEPT !.self = o.self,
               !.hooks = @ + 1,
               !.state = IF o.kind = "ok" THEN "alive" ELSE "panicked",
               !.served = IF o.request = NoEntry THEN @
                          ELSE Append(@, [method |-> method, uri |-> uri,
                                          stream |-> stream, entry |-> o.request,
                                          returned |-> o.kind = "ok",
                                          resp |-> o.resp])]

\* The server calls the get hook: a GET request was parsed.
TestGet ==
    /\ th.kind = "test"
    /\ th.state = "alive"
    /\ th.hooks <= MaxScript
    /\ \E uri \in URIs :
          th' = AfterHook("Get", uri, [data |-> <<>>, bad |-> FALSE],
                          TestRequestHandler_get(th.self, uri))

\* The server calls the put hook: a PUT request with a length was parsed.
TestPut ==
    /\ th.kind = "test"
    /\ th.state = "alive"
    /\ th.hooks <= MaxScript
    /\ \E uri \in URIs, stream \in PutBodies :
          th' = AfterHook("Put", uri, stream, TestRequestHandler_put(th.self, uri, stream))

\* The server calls a hook the test handler does not override: the provided
\* hook answers and the script is not looked at.
TestProvided ==
    /\ th.kind = "test"
    /\ th.state = "alive"
    /\ th.hooks <= MaxScript
    /\ th' = [th EXCEPT !.hooks = @ + 1]

\* The handler is dropped, with its server or while a panic of one of its hooks
\* unwinds.
TestDrop ==
    /\ th.kind = "test"
    /\ th.state \in {"alive", "panicked"}
    /\ th' = [th EXCEPT !.state = "dropped", !.drop = TestRequestHandler_drop(th.self)]

InitScript ==
    /\ NoServer
    /\ io = NoIo
    /\ th \in TestInits

NextScript ==
    \/ TestGet /\ UNCHANGED <<serverVars, io>>
    \/ TestPut /\ UNCHANGED <<serverVars, io>>
    \/ TestProvided /\ UNCHANGED <<serverVars, io>>
    \/ TestDrop /\ UNCHANGED <<serverVars, io>>

SpecScript == InitScript /\ [][NextScript]_vars

\* The requests the handler served: the hook calls that returned the response
\* of their entry.
Served == {i \in DOMAIN th.served : th.served[i].returned}

\* C16 as stated: the drop's assertion passes only when the requests served are
\* as many as the entries of the script.
C16_Stated ==
    (th.kind = "test" /\ th.drop = "passed") => Cardinality(Served) = Len(th.initial)

\* C16: the i-th call of the get or put hook is served against the i-th entry
\* of the script: the entries are taken from the front, each once, and a hook
\* returns only for a request whose method, URI and, for put, whole body are
\* those its entry expects, with the response of that entry, and panics
\* otherwise, its entry taken; and the assertion of the handler's drop passes
\* exactly when the script is used up: the hook calls that took an entry are as
\* many as the entries of the script, and all of them but perhaps the last
\* returned.
C16_ScriptInOrder ==
    th.kind = "test" =>
        /\ Len(th.served) <= Len(th.initial)
        /\ Cardinality(Served) >= Len(th.served) - 1
        /\ th.self.script = DropFront(th.initial, Len(th.served))
        /\ \A i \in DOMAIN th.served :
             LET s == th.served[i]
             IN  /\ s.entry = th.initial[i]
                 /\ s.returned =>
                      /\ s.method = s.entry.expected_method
                      /\ s.uri = s.entry.expected_uri
                      /\ s.method = "Put" =>
                           ~s.stream.bad /\ s.stream.data = s.entry.expected_body
                      /\ s.resp = from_string(s.entry.response_status,
                                              s.entry.response_body)
                 /\ (~s.returned) => i = Len(th.served) /\ th.state # "alive"
        /\ th.state = "dropped" =>
             (th.drop = "passed" <=> Len(th.served) = Len(th.initial))
        /\ th.state # "dropped" => th.drop = "none"

C16_Witness ==
    /\ th.kind = "test"
    /\ th.state = "dropped"
    /\ th.drop = "passed"
    /\ Len(th.initial) = 2
    /\ th.hooks = 3
    /\ th.served[1].method = "Get"
    /\ th.served[2].method = "Put"
    /\ th.served[2].stream.data = <<1>>
    /\ th.served[2].returned
    /\ th.served[1].resp.status # th.served[2].resp.status

====
